---- MODULE Spec2Model ----
(***************************************************************************)
(* Model of pyomo_retail_optimization.py: a script that loads seven CSV    *)
(* tables, builds a Pyomo model (sets, parameters, binary variables, a     *)
(* linear objective, one budget constraint), calls an external MILP solver *)
(* and prints a report.                                                    *)
(*                                                                         *)
(* Identifiers are sequences of characters, so that str(j).startswith(c)   *)
(* is computed on the identifier.  Real numbers are fixed-point integers   *)
(* in units of 1/Scale; every distance the model draws divides Scale, so   *)
(* each reciprocal 1/d is exact.  The printed objective is in hundredths   *)
(* (the report formats it with two decimals).                              *)
(***************************************************************************)
EXTENDS Integers, Sequences, FiniteSets, TLC

VARIABLES
    pc,       \* position of the script
    files,    \* table name -> "ok" | "missing" | "unreadable"
    data,     \* content of the tables that vary: [M, h, d]
    cfgPmax,  \* the value model.P_max is initialised with
    env,      \* module namespace: bound name -> value
    model,    \* the ConcreteModel: component name -> value
    xval,     \* value of model.x after the solve (<< >> while unassigned)
    results,  \* results.solver: [status, tc]
    solverInvoked,  \* solver.solve has been called
    err,      \* the uncaught exception that ended the script, or "none"
    out       \* printed lines

vars == <<pc, files, data, cfgPmax, env, model, xval, results, solverInvoked, err, out>>

-----------------------------------------------------------------------------
(* Bounds of the input space *)

MaxH == 1        \* demand weights are drawn from -1..MaxH
MaxDist == 2     \* distances are drawn from 0..MaxDist
MaxSites == 6    \* the longest list of potential sites is P1..P<MaxSites>
MaxBudget == 2   \* SpecCfg draws the budget from 0..MaxBudget and the script's 5

(* Program constants *)

P_max_default == 5   \* model.P_max = pyo.Param(initialize=5)
Sentinel == 1000000  \* model.d default=1e6

Scale == 3 * Sentinel     \* fixed-point unit: 1.0 is Scale
Unit2f == Scale \div 100  \* one hundredth, the last digit '.2f' prints

-----------------------------------------------------------------------------
(* Identifiers *)

Digits == <<"1", "2", "3", "4", "5", "6", "7", "8", "9">>
Id(c, n) == <<c, Digits[n]>>
A == <<"A">>
B == <<"B">>
S1 == <<"S", "1">>
P1 == Id("P", 1)
P2 == Id("P", 2)
E1 == Id("E", 1)
C1 == Id("C", 1)
X1 == Id("X", 1)

Range(s) == {s[k] : k \in DOMAIN s}

-----------------------------------------------------------------------------
(* The data tables.  Sets I, J, S and v_j0 have a fixed content; set M and *)
(* the sparse tables h_is and d_ij vary.                                   *)

Tables == <<"Set I", "Set J", "Set M", "Set S", "h_is", "d_ij", "V_j=0">>
Targets == <<"set_I", "set_J", "set_M", "set_S", "h_is", "d_ij", "v_j0">>

IList == <<A, B>>
JList == <<P1, P2>>
SList == <<S1>>
V0Table == (A :> 1)

ScenarioH == (<<A, S1>> :> 10) @@ (<<B, S1>> :> 5)
ScenarioD == (<<A, P1>> :> 2) @@ (<<A, P2>> :> 4) @@ (<<B, P1>> :> 5) @@ (<<B, P2>> :> 1)
EmptyDict == [k \in {} |-> 0]

HKeys == {<<A, S1>>, <<B, S1>>}
DKeys == {<<A, P1>>, <<A, P2>>, <<B, P1>>, <<B, P2>>}
HVals == -1 .. MaxH
DVals == {v \in 0 .. MaxDist : v = 0 \/ Scale % v = 0}

Dicts(K, V) == UNION {[D -> V] : D \in SUBSET K}

HTables == [HKeys -> HVals] \cup {EmptyDict, ScenarioH}
DTables == Dicts(DKeys, DVals) \cup {ScenarioD}

ManySites == [n \in 1 .. MaxSites |-> Id("P", n)]
MLists == {<<P1, P2>>, <<P2, E1, P1, C1>>, <<P1, P1, E1>>, <<X1, P1>>, <<E1, C1>>, ManySites}

ScenarioData == [M |-> <<P1, P2>>, h |-> ScenarioH, d |-> ScenarioD]

AllOk == [t \in Range(Tables) |-> "ok"]

\* one table fails to load, the others are there
FailingFiles == {[AllOk EXCEPT ![t] = s] : t \in Range(Tables), s \in {"missing", "unreadable"}}

Inputs ==
    \* every table loads; the site list varies
    {[files |-> AllOk, data |-> [M |-> m, h |-> ScenarioH, d |-> d]] :
        m \in MLists, d \in {ScenarioD, EmptyDict}}
    \cup
    \* every table loads; the demand weights and distances vary
    {[files |-> AllOk, data |-> [M |-> <<P1, P2>>, h |-> h, d |-> d]] :
        h \in HTables, d \in DTables}
    \cup
    \* one table is missing or unreadable
    {[files |-> f, data |-> ScenarioData] : f \in FailingFiles}

-----------------------------------------------------------------------------
(* Loading: lines 8-34 *)

DictGet(dict, k, default) == IF k \in DOMAIN dict THEN dict[k] ELSE default

\* str(j).startswith(c)
StartsWith(j, c) == Len(j) > 0 /\ j[1] = c

Prefixed(list, c) == SelectSeq(list, LAMBDA j : StartsWith(j, c))

set_E(M) == Prefixed(M, "E")
set_C(M) == Prefixed(M, "C")
set_P(M) == Prefixed(M, "P")

\* what pd.read_csv(...) of table k yields
TableContent(k) ==
    CASE k = 1 -> IList
      [] k = 2 -> JList
      [] k = 3 -> data.M
      [] k = 4 -> SList
      [] k = 5 -> data.h
      [] k = 6 -> data.d
      [] k = 7 -> V0Table

\* index of the first table whose read raises, 8 when all seven load
FirstFailure ==
    IF \E k \in 1 .. 7 : files[Tables[k]] # "ok"
    THEN CHOOSE k \in 1 .. 7 :
            /\ files[Tables[k]] # "ok"
            /\ \A l \in 1 .. (k - 1) : files[Tables[l]] = "ok"
    ELSE 8

\* the namespace after the try block has run up to (not including) table k
LoadedEnv(k) ==
    LET tabs == [n \in {Targets[l] : l \in 1 .. (k - 1)} |->
                    TableContent(CHOOSE l \in 1 .. 7 : Targets[l] = n)]
        subs == IF k = 8
                THEN ("set_E" :> set_E(data.M)) @@ ("set_C" :> set_C(data.M))
                     @@ ("set_P" :> set_P(data.M))
                ELSE [n \in {} |-> 0]
    IN  tabs @@ subs

\* The except clause catches FileNotFoundError only, prints, and the script
\* goes on to line 37; any other exception ends the script.
LoadData ==
    /\ pc = "load"
    /\ LET k == FirstFailure IN
        /\ env' = LoadedEnv(k)
        /\ IF k = 8
           THEN /\ out' = Append(out, <<"loaded">>)
                /\ pc' = "sets"
                /\ err' = err
           ELSE IF files[Tables[k]] = "missing"
           THEN /\ out' = out \o << <<"load_error", Tables[k]>>, <<"ensure_files">> >>
                /\ pc' = "sets"
                /\ err' = err
           ELSE /\ out' = out
                /\ pc' = "crashed"
                /\ err' = "ReadError"
    /\ UNCHANGED <<files, data, cfgPmax, model, xval, results, solverInvoked>>

-----------------------------------------------------------------------------
(* Model sets: lines 37-45 *)

RECURSIVE Dedup(_)
Dedup(s) ==
    IF s = << >> THEN << >>
    ELSE LET r == Dedup(SubSeq(s, 1, Len(s) - 1))
         IN  IF s[Len(s)] \in Range(r) THEN r ELSE Append(r, s[Len(s)])

\* pyo.Set(initialize=list): an ordered set, a repeated element is kept once
PyoSet(list) == Dedup(list)

\* model.<component> = pyo.Set(initialize=<name>), in the order of the script
SetSources == << <<"I", "set_I">>, <<"J", "set_J">>, <<"S", "set_S">>,
                 <<"E", "set_E">>, <<"C", "set_C">>, <<"P", "set_P">> >>

\* whether evaluating the name raises NameError
Unbound(name) == name \notin DOMAIN env

\* Each statement evaluates its name first; the first unbound one raises
\* NameError, which nothing catches.  The sets made before it stay made.
BuildSets ==
    /\ pc = "sets"
    /\ LET n == IF \E l \in 1 .. 6 : Unbound(SetSources[l][2])
                THEN CHOOSE l \in 1 .. 6 :
                        /\ Unbound(SetSources[l][2])
                        /\ \A q \in 1 .. (l - 1) : ~Unbound(SetSources[q][2])
                ELSE 7
       IN /\ model' = [c \in {SetSources[l][1] : l \in 1 .. (n - 1)} |->
                        PyoSet(env[(CHOOSE src \in Range(SetSources) : src[1] = c)[2]])]
          /\ IF n = 7
             THEN pc' = "params" /\ err' = err
             ELSE pc' = "crashed" /\ err' = "NameError"
    /\ UNCHANGED <<files, data, cfgPmax, env, xval, results, solverInvoked, out>>

-----------------------------------------------------------------------------
(* Parameters: lines 48-51 *)

\* the index set of model.d: I x (P | E | C)
DIndexOk(k) ==
    /\ k[1] \in Range(model["I"])
    /\ k[2] \in Range(model["P"]) \cup Range(model["E"]) \cup Range(model["C"])

HIndexOk(k) == k[1] \in Range(model["I"]) /\ k[2] \in Range(model["S"])

V0IndexOk(k) == k \in Range(model["I"])

\* A Param initialised from a dict checks every key against its index set
\* and raises KeyError on a key outside it; it places no condition on the
\* values (no domain is given).
ParamRaises(name) ==
    CASE name = "h"  -> \E k \in DOMAIN env["h_is"] : ~HIndexOk(k)
      [] name = "d"  -> \E k \in DOMAIN env["d_ij"] : ~DIndexOk(k)
      [] name = "v0" -> \E k \in DOMAIN env["v_j0"] : ~V0IndexOk(k)
      [] name = "P_max" -> FALSE

ParamValue(name) ==
    CASE name = "h"  -> env["h_is"]
      [] name = "d"  -> env["d_ij"]
      [] name = "v0" -> env["v_j0"]
      [] name = "P_max" -> cfgPmax

ParamOrder == <<"h", "d", "v0", "P_max">>

BuildParams ==
    /\ pc = "params"
    /\ LET n == IF \E l \in 1 .. 4 : ParamRaises(ParamOrder[l])
                THEN CHOOSE l \in 1 .. 4 :
                        /\ ParamRaises(ParamOrder[l])
                        /\ \A q \in 1 .. (l - 1) : ~ParamRaises(ParamOrder[q])
                ELSE 5
       IN /\ model' = [c \in {ParamOrder[l] : l \in 1 .. (n - 1)} |-> ParamValue(c)] @@ model
          /\ IF n = 5
             THEN pc' = "var" /\ err' = err
             ELSE pc' = "crashed" /\ err' = "KeyError"
    /\ UNCHANGED <<files, data, cfgPmax, env, xval, results, solverInvoked, out>>

\* faulty variant: a zero distance taken for a missing one (d.get(k) or 1e6)
d_zero_as_missing(m, i, j) ==
    IF DictGet(m["d"], <<i, j>>, 0) = 0 THEN Sentinel ELSE m["d"][<<i, j>>]

\* model.h[i,s] with default=0, model.d[i,j] with default=1e6
h(m, i, s) == DictGet(m["h"], <<i, s>>, 0)
d(m, i, j) == DictGet(m["d"], <<i, j>>, Sentinel)

-----------------------------------------------------------------------------
(* Variables: line 55 *)

\* pyo.Binary
Binary == {0, 1}

\* model.x = pyo.Var(model.P, within=pyo.Binary)
BuildVar ==
    /\ pc = "var"
    /\ model' = ("x" :> [index |-> Range(model["P"]), within |-> Binary]) @@ model
    /\ pc' = "objective"
    /\ UNCHANGED <<files, data, cfgPmax, env, xval, results, solverInvoked, err, out>>

-----------------------------------------------------------------------------
(* Objective: lines 59-69.  A linear expression in x is the function that  *)
(* gives each x[j] its coefficient, in units of 1/Scale.                   *)

\* 1/model.d[i,j]
Recip(dist) == Scale \div dist

\* faulty variant: the distance dropped from the inner sum
InnerSum_unweighted(m, i) == [j \in Range(m["P"]) |-> Scale]

\* sum(1/model.d[i,j] * model.x[j] for j in model.P)
InnerSum(m, i) == [j \in Range(m["P"]) |-> Recip(d(m, i, j))]

RECURSIVE LoopS(_, _, _, _)
LoopS(m, i, k, total) ==
    IF k > Len(m["S"]) THEN total
    ELSE LoopS(m, i, k + 1,
               [j \in DOMAIN total |-> total[j] + h(m, i, m["S"][k]) * InnerSum(m, i)[j]])

RECURSIVE LoopI(_, _, _)
LoopI(m, k, total) ==
    IF k > Len(m["I"]) THEN total
    ELSE LoopI(m, k + 1, LoopS(m, m["I"][k], 1, total))

\* total_captured_demand, starting from 0
objective_rule(m) == LoopI(m, 1, [j \in Range(m["P"]) |-> 0])

\* 1/model.d[i,j] is evaluated for every i, s and j the loops visit,
\* whatever h[i,s] is; a distance of 0 raises ZeroDivisionError
ObjectiveRaises(m) ==
    \E i \in Range(m["I"]), s \in Range(m["S"]), j \in Range(m["P"]) : d(m, i, j) = 0

BuildObjective ==
    /\ pc = "objective"
    /\ IF ObjectiveRaises(model)
       THEN /\ pc' = "crashed"
            /\ err' = "ZeroDivisionError"
            /\ model' = model
       ELSE /\ pc' = "constraint"
            /\ err' = err
            /\ model' = ("objective" :> objective_rule(model)) @@ model
    /\ UNCHANGED <<files, data, cfgPmax, env, xval, results, solverInvoked, out>>

-----------------------------------------------------------------------------
(* Constraint: lines 73-78 *)

RECURSIVE SumOver(_, _)
SumOver(f, S) ==
    IF S = {} THEN 0
    ELSE LET j == CHOOSE e \in S : TRUE IN f[j] + SumOver(f, S \ {j})

\* faulty variants: the comparison turned round; the bound off by one
budget_constraint_rule_ge(m, xv) == SumOver(xv, Range(m["P"])) >= m["P_max"]
budget_constraint_rule_plus1(m, xv) == SumOver(xv, Range(m["P"])) <= m["P_max"] + 1

\* sum(model.x[j] for j in model.P) <= model.P_max
budget_constraint_rule(m, xv) == SumOver(xv, Range(m["P"])) <= m["P_max"]

\* whether the rule's result is a Python bool instead of an expression: with
\* no potential site the sum is the integer 0 and 0 <= P_max is evaluated on
\* the spot
ConstraintIsTrivial(m) == Range(m["P"]) = {}

\* pyo.Constraint(rule=...) rejects a rule result that is a plain bool with
\* ValueError; otherwise the constraint is made and line 78 prints
BuildConstraint ==
    /\ pc = "constraint"
    /\ IF ConstraintIsTrivial(model)
       THEN /\ pc' = "crashed"
            /\ err' = "ValueError"
            /\ UNCHANGED <<model, out>>
       ELSE /\ pc' = "solve"
            /\ err' = err
            /\ model' = ("budget_constraint" :> [upper |-> model["P_max"]]) @@ model
            /\ out' = Append(out, <<"built">>)
    /\ UNCHANGED <<files, data, cfgPmax, env, xval, results, solverInvoked>>

-----------------------------------------------------------------------------
(* Solve: lines 69 and 82-85.  The solver is external: it is given the     *)
(* model as built (variable domains, objective with its sense, constraint) *)
(* and either raises or returns a status, a termination condition and,     *)
(* when it reports an optimum, an assignment that is one.                  *)

SolverStatus == {"ok", "warning"}
TerminationCondition == {"optimal", "infeasible", "maxTimeLimit"}

\* the assignments the declared domain of x allows
Assignments(m) == [m["x"].index -> m["x"].within]

\* pyo.value(model.objective) under the assignment xv
ObjectiveValue(m, xv) ==
    SumOver([j \in DOMAIN xv |-> m["objective"][j] * xv[j]], DOMAIN xv)

Feasible(m) == {xv \in Assignments(m) : budget_constraint_rule(m, xv)}

\* sense=pyo.maximize
Optimal(m) ==
    LET feas == Feasible(m)
        val == [xv \in feas |-> ObjectiveValue(m, xv)]
    IN  {xv \in feas : \A y \in feas : val[y] <= val[xv]}

\* solver.solve raises (no executable at the configured path, the solver
\* crashed, its results cannot be loaded): the except clause of lines
\* 110-112 prints and the script ends.
SolveRaises ==
    /\ pc = "solve"
    /\ solverInvoked' = TRUE
    /\ out' = out \o << <<"solve_error">>, <<"ensure_solver">> >>
    /\ pc' = "done"
    /\ UNCHANGED <<files, data, cfgPmax, env, model, xval, results, err>>

SolveReturns ==
    /\ pc = "solve"
    /\ solverInvoked' = TRUE
    /\ \E st \in SolverStatus, tc \in TerminationCondition :
        /\ results' = [status |-> st, tc |-> tc]
        /\ IF st = "ok" /\ tc = "optimal"
           THEN xval' \in Optimal(model)
           ELSE xval' = xval
    /\ pc' = "report"
    /\ UNCHANGED <<files, data, cfgPmax, env, model, err, out>>

-----------------------------------------------------------------------------
(* Report: lines 88-108 *)

\* format(v, ',.2f'): v in units of 1/Scale, the result in hundredths,
\* rounded to the nearest hundredth (a tie goes to the even one)
Format2f(v) ==
    LET q == v \div Unit2f
        r == v % Unit2f
    IN  IF 2 * r > Unit2f \/ (2 * r = Unit2f /\ q % 2 = 1) THEN q + 1 ELSE q

\* faulty variant: the comparison turned round
IsOpen_inverted(xv, j) == 2 * xv[j] < 1

\* pyo.value(model.x[j]) > 0.5
IsOpen(xv, j) == 2 * xv[j] > 1

\* [j for j in model.P if pyo.value(model.x[j]) > 0.5]
opened_stores(m, xv) == SelectSeq(m["P"], LAMBDA j : IsOpen(xv, j))

\* the branch of lines 92-108 the results select
ReportBranch(res) ==
    IF res.status = "ok" /\ res.tc = "optimal" THEN "optimal"
    ELSE IF res.tc = "infeasible" THEN "infeasible"
    ELSE "status"

\* faulty variant: the infeasible test as a separate if, not an elif of the optimal one
ReportLines_separate_if(m, xv, res) ==
    (IF res.status = "ok" /\ res.tc = "optimal"
     THEN << <<"optimal">>, <<"objective", Format2f(ObjectiveValue(m, xv))>>, <<"locations">> >>
     ELSE << >>)
    \o (IF res.tc = "infeasible"
        THEN << <<"infeasible">> >>
        ELSE << <<"status", res.status>> >>)

ReportLines(m, xv, res) ==
    CASE ReportBranch(res) = "optimal" ->
            LET opened == opened_stores(m, xv)
            IN  << <<"optimal">>,
                   <<"objective", Format2f(ObjectiveValue(m, xv))>>,
                   <<"locations">> >>
                \o (IF opened # << >>
                    THEN [k \in 1 .. Len(opened) |-> <<"store", opened[k]>>]
                    ELSE << <<"no_stores">> >>)
      [] ReportBranch(res) = "infeasible" -> << <<"infeasible">> >>
      [] ReportBranch(res) = "status" -> << <<"status", res.status>> >>

Report ==
    /\ pc = "report"
    /\ out' = out \o << <<"results">> >> \o ReportLines(model, xval, results)
    /\ pc' = "done"
    /\ UNCHANGED <<files, data, cfgPmax, env, model, xval, results, solverInvoked, err>>

-----------------------------------------------------------------------------
\* a fresh run of the script on some input
Start ==
    /\ pc = "load"
    /\ \E inp \in Inputs : files = inp.files /\ data = inp.data
    /\ env = [n \in {} |-> 0]
    /\ model = [n \in {} |-> 0]
    /\ xval = << >>
    /\ results = [status |-> "none", tc |-> "none"]
    /\ solverInvoked = FALSE
    /\ err = "none"
    /\ out = << >>

\* the script as written: the budget is the constant of line 51
Init ==
    /\ Start
    /\ cfgPmax = P_max_default

\* the budget as a configuration of the model builder
InitCfg ==
    /\ Start
    /\ cfgPmax \in (0 .. MaxBudget) \cup {P_max_default}

Next ==
    \/ LoadData
    \/ BuildSets
    \/ BuildParams
    \/ BuildVar
    \/ BuildObjective
    \/ BuildConstraint
    \/ SolveRaises
    \/ SolveReturns
    \/ Report

Spec == Init /\ [][Next]_vars

SpecCfg == InitCfg /\ [][Next]_vars

-----------------------------------------------------------------------------
(* What the claims speak of *)

Tagged(o, tag) == SelectSeq(o, LAMBDA l : l[1] = tag)
Printed(tag) == Tagged(out, tag) # << >>

\* the outcome the run has printed
Outcome ==
    IF Printed("optimal") THEN "Optimal"
    ELSE IF Printed("infeasible") THEN "Infeasible"
    ELSE IF Printed("status") \/ Printed("solve_error") THEN "Error"
    ELSE "none"

\* the objective the report shows, in hundredths
PrintedObjective == Tagged(out, "objective")[1][2]

\* the sites the report lists, in the order printed
PrintedStores == [k \in 1 .. Len(Tagged(out, "store")) |-> Tagged(out, "store")[k][2]]

\* the potential sites of the input, and the input tables with their defaults
PotentialSites == {j \in Range(data.M) : j[1] = "P"}
InputH(i, s) == IF <<i, s>> \in DOMAIN data.h THEN data.h[<<i, s>>] ELSE 0
InputD(i, j) == IF <<i, j>> \in DOMAIN data.d THEN data.d[<<i, j>>] ELSE Sentinel

\* sum over i in I, s in S of h[i,s] * sum over j in P of (1/d[i,j]) * x[j],
\* in units of 1/Scale
DemandCaptured(xv) ==
    LET IS == Range(IList) \X Range(SList)
    IN  SumOver([p \in IS |->
                    InputH(p[1], p[2])
                    * SumOver([j \in DOMAIN xv |-> (Scale \div InputD(p[1], j)) * xv[j]],
                              DOMAIN xv)],
                IS)

OpenCount(xv) == Cardinality({j \in DOMAIN xv : xv[j] = 1})

WithinBudget(xv, budget) == OpenCount(xv) <= budget

NoBetterAssignment(xv, budget) ==
    \A y \in [PotentialSites -> {0, 1}] :
        WithinBudget(y, budget) => DemandCaptured(y) <= DemandCaptured(xv)

\* the data errors of the input
NegativeWeight == \E k \in DOMAIN data.h : data.h[k] < 0
UnknownSite == \E k \in DOMAIN data.d : k[2] \notin Range(data.M)

IsScenario ==
    /\ data = ScenarioData
    /\ cfgPmax = 1

FirstPos(list, e) == CHOOSE k \in DOMAIN list : list[k] = e /\ \A l \in 1 .. (k - 1) : list[l] # e

AllComponents == {"I", "J", "S", "E", "C", "P", "h", "d", "v0", "P_max",
                  "x", "objective", "budget_constraint"}

-----------------------------------------------------------------------------
\* C1: whenever a run ends in the Optimal outcome, the assignment has x[j] in
\* {0,1} for every potential site j, and the number of sites with x[j] = 1 (and
\* of sites the report lists) is at most P_max.
C1_OptimalIsBinaryWithinBudget ==
    Outcome = "Optimal" =>
        /\ DOMAIN xval = PotentialSites
        /\ \A j \in PotentialSites : xval[j] \in {0, 1}
        /\ OpenCount(xval) <= cfgPmax
        /\ Len(PrintedStores) <= cfgPmax

\* an Optimal run on more potential sites than the budget, which opens as many
\* as the budget allows
C1_Witness_BudgetBinds ==
    /\ Outcome = "Optimal"
    /\ Cardinality(PotentialSites) > cfgPmax
    /\ OpenCount(xval) = cfgPmax

\* C2 as stated, on input without a negative weight and with the budget of
\* line 51: on an Optimal outcome the reported objective value equals the
\* demand captured by the returned assignment, no binary assignment within the
\* budget captures more, and the scenario opens P2 only with objective 7.5.
C2_ReportedObjectiveIsExact ==
    (Outcome = "Optimal" /\ ~NegativeWeight /\ cfgPmax = P_max_default) =>
        /\ PrintedObjective * Unit2f = DemandCaptured(xval)
        /\ NoBetterAssignment(xval, cfgPmax)
        /\ IsScenario => PrintedStores = <<P2>> /\ PrintedObjective = 750

\* C2 amended: on an Optimal outcome the reported objective value is the demand
\* captured by the returned assignment rounded to two decimals (so within 0.005
\* of it), no binary assignment within the budget captures more, and the
\* scenario opens P2 only, capturing exactly 7.5, reported as 7.50.
C2_ReportedObjectiveIsRounded ==
    Outcome = "Optimal" =>
        /\ 2 * (PrintedObjective * Unit2f - DemandCaptured(xval)) <= Unit2f
        /\ 2 * (DemandCaptured(xval) - PrintedObjective * Unit2f) <= Unit2f
        /\ NoBetterAssignment(xval, cfgPmax)
        /\ IsScenario =>
            /\ PrintedStores = <<P2>>
            /\ 2 * DemandCaptured(xval) = 15 * Scale
            /\ PrintedObjective = 750

\* the scenario has been solved to optimality and reported
C2_Witness_Scenario ==
    /\ IsScenario
    /\ Outcome = "Optimal"
    /\ pc = "done"

ZeroDistanceUsed ==
    \E i \in Range(IList), j \in PotentialSites :
        /\ <<i, j>> \in DOMAIN data.d
        /\ data.d[<<i, j>>] = 0
        /\ \E s \in Range(SList) : InputH(i, s) > 0

\* C3: if d[i,j] = 0 for a location i and a potential site j with h[i,s] > 0
\* for some segment s, the run never reaches Built, no objective is made, the
\* solver is never invoked, and the objective's construction ends the run with
\* a division-by-zero error.
C3_ZeroDistanceFailsBuild ==
    ZeroDistanceUsed =>
        /\ ~Printed("built")
        /\ "objective" \notin DOMAIN model
        /\ pc \notin {"constraint", "solve", "report", "done"}
        /\ ~solverInvoked
        /\ (pc = "crashed" /\ "x" \in DOMAIN model) => err = "ZeroDivisionError"

C3_Witness_ZeroDivision ==
    /\ ZeroDistanceUsed
    /\ pc = "crashed"
    /\ err = "ZeroDivisionError"

\* C4 as stated: if any of the seven tables is missing or unreadable, no model
\* component is created in that run.
C4_NoComponentAfterLoadFailure ==
    (\E t \in Range(Tables) : files[t] # "ok") => DOMAIN model = {}

\* C5 as stated: the report says Optimal or Infeasible only when the solver
\* status is ok.
C5_OutcomeOnlyWhenStatusOk ==
    Outcome \in {"Optimal", "Infeasible"} => results.status = "ok"

\* C6 as stated: when the input has a negative demand weight, a distance for a
\* site absent from set M, or a zero distance that the objective divides by,
\* the solver is never called.
C6_DataErrorsBeforeSolve ==
    (NegativeWeight \/ UnknownSite \/ ZeroDistanceUsed) => ~solverInvoked

Rank(p) ==
    CASE p \in {"report", "done"} -> 2
      [] p = "solve" -> 1
      [] OTHER -> 0

OutcomeCount(o) ==
    Len(SelectSeq(o, LAMBDA l : l[1] \in {"optimal", "infeasible", "status", "solve_error"}))

C7_Step ==
    /\ Rank(pc') >= Rank(pc)
    /\ (solverInvoked' /\ ~solverInvoked) =>
        /\ pc = "solve"
        /\ Printed("built")
        /\ DOMAIN model = AllComponents
        /\ files = AllOk
    /\ Rank(pc') = 2 => solverInvoked'
    /\ pc' = "done" => OutcomeCount(out') = 1
    /\ pc' # "done" => OutcomeCount(out') = 0

\* C7: the lifecycle only moves forward through Unbuilt, Built, Solved; the
\* solver is invoked only from Built, with every component made and every
\* table loaded; a run that ends after the solve has printed exactly one of
\* the Optimal, Infeasible and Error outcomes.
C7_LifecycleForward == [][C7_Step]_vars

C7_Witness_Solved ==
    /\ pc = "done"
    /\ solverInvoked
    /\ Outcome = "Error"
    /\ Printed("status")

\* C8: if P_max = 0, an assignment returned as Optimal has x[j] = 0 for every
\* potential site j, and its objective value is 0.
C8_ZeroBudgetOpensNothing ==
    (Outcome = "Optimal" /\ cfgPmax = 0) =>
        /\ \A j \in PotentialSites : xval[j] = 0
        /\ DemandCaptured(xval) = 0
        /\ PrintedObjective = 0
        /\ PrintedStores = << >>

\* a zero budget on an input where opening a site would capture demand
C8_Witness_ZeroBudget ==
    /\ Outcome = "Optimal"
    /\ cfgPmax = 0
    /\ \E y \in [PotentialSites -> {0, 1}] : DemandCaptured(y) > 0

\* C9 as stated: the subsets E, C and P built from M are pairwise disjoint and
\* their union is the whole of M.
C9_CategoriesPartitionM ==
    "set_P" \in DOMAIN env =>
        LET E == Range(env["set_E"])
            C == Range(env["set_C"])
            P == Range(env["set_P"])
        IN  /\ E \cap C = {}
            /\ E \cap P = {}
            /\ C \cap P = {}
            /\ E \cup C \cup P = Range(env["set_M"])

\* C10: on an Optimal outcome the report lists exactly the potential sites
\* whose value exceeds 0.5, each once, in the order of their first appearance
\* in set M, and prints the no-stores message exactly when it lists none; on
\* an Infeasible outcome it prints no site and no objective value.
C10_ReportListsOpenedSites ==
    /\ (pc = "done" /\ Outcome = "Optimal") =>
        /\ Range(PrintedStores) = {j \in PotentialSites : 2 * xval[j] > 1}
        /\ Len(PrintedStores) = Cardinality(Range(PrintedStores))
        /\ \A a, b \in DOMAIN PrintedStores :
            a < b => FirstPos(data.M, PrintedStores[a]) < FirstPos(data.M, PrintedStores[b])
        /\ Printed("no_stores") <=> PrintedStores = << >>
        /\ Len(Tagged(out, "objective")) = 1
    /\ (pc = "done" /\ Outcome = "Infeasible") =>
        /\ ~Printed("store")
        /\ ~Printed("objective")
        /\ ~Printed("no_stores")

\* two sites are listed, in the order of set M, which is not the order of
\* their names
C10_Witness_TwoSitesInOrder ==
    /\ pc = "done"
    /\ Outcome = "Optimal"
    /\ PrintedStores = <<P2, P1>>
====
